---- MODULE Spec2Model ----
(***************************************************************************)
(* The WPPOOL analytics dashboard (src/app.py).  The module-level code    *)
(* loads the dataset, derives the month column, precomputes the           *)
(* (month, country) revenue aggregate and the static figures and builds   *)
(* the layout; two Dash callbacks, update_revenue_chart and update_map,   *)
(* rebuild one figure each from a dropdown value.                          *)
(*                                                                         *)
(* A Python str is modelled as a sequence of one-character strings, so    *)
(* that formatting (the month label) and the lexicographic order used by  *)
(* groupby's sort are computed, not assumed.  A data frame is a sequence  *)
(* of rows (records).  Records carry the columns of the data model with   *)
(* the values the data model allows (no missing country, install_date,    *)
(* monthly_revenue or subscription_type); monthly_revenue is a whole      *)
(* number of dollars.                                                      *)
(***************************************************************************)
EXTENDS Integers, Sequences, FiniteSets, TLC

\* ------------------------------------------------------------------ bounds

\* longest dataset drawn by InitAgg
MaxRecords == 2
\* most callback requests in flight at the server
MaxPending == 2

\* ------------------------------------------------------------------ text

DigitChar == <<"0", "1", "2", "3", "4", "5", "6", "7", "8", "9">>

\* the characters that occur in sorted columns, in code point order
Alphabet == <<"-", "0", "1", "2", "3", "4", "5", "6", "7", "8", "9", "D", "E", "S", "U">>

Ord(c) == CHOOSE i \in 1..Len(Alphabet) : Alphabet[i] = c

RECURSIVE TextLess(_, _)
\* Python's str <: lexicographic by code point, a proper prefix first
TextLess(a, b) ==
    IF b = <<>> THEN FALSE
    ELSE IF a = <<>> THEN TRUE
    ELSE IF Head(a) # Head(b) THEN Ord(Head(a)) < Ord(Head(b))
    ELSE TextLess(Tail(a), Tail(b))

RECURSIVE Join(_)
\* the text as one string, as an f-string interpolates it
Join(t) == IF t = <<>> THEN "" ELSE Head(t) \o Join(Tail(t))

RECURSIVE Pad(_, _)
\* n in decimal, zero-padded to width digits
Pad(n, width) ==
    IF width = 0 THEN <<>> ELSE Pad(n \div 10, width - 1) \o <<DigitChar[(n % 10) + 1]>>

\* Python's None; str(None) is "None"
None == <<"None">>

US == <<"U", "S">>
DE == <<"D", "E">>
Free == <<"F", "r", "e", "e">>
Pro == <<"P", "r", "o">>

\* ------------------------------------------------------------------ dataset

\* a date is <<year, month, day>>
DateLess(a, b) ==
    \/ a[1] < b[1]
    \/ a[1] = b[1] /\ a[2] < b[2]
    \/ a[1] = b[1] /\ a[2] = b[2] /\ a[3] < b[3]

\* dt.to_period('M').astype(str): YYYY-MM
MonthKey(date) == Pad(date[1], 4) \o <<"-">> \o Pad(date[2], 2)

Countries == {US, DE}
Dates == {<<2024, 1, 5>>, <<2024, 1, 20>>, <<2024, 2, 3>>}
Revenues == {5, 10}
SubscriptionTypes == {Free, Pro}

\* one CSV row, before user_id and month are attached
Rows ==
    [country : Countries, install_date : Dates, monthly_revenue : Revenues,
     subscription_type : SubscriptionTypes, days_active : {12}, churned : {FALSE}]

\* read_csv, then df['month'] = ...: user_id is the row's position
LoadFrame(rows) ==
    [i \in 1..Len(rows) |->
        [user_id |-> i,
         country |-> rows[i].country,
         install_date |-> rows[i].install_date,
         monthly_revenue |-> rows[i].monthly_revenue,
         subscription_type |-> rows[i].subscription_type,
         days_active |-> rows[i].days_active,
         churned |-> rows[i].churned,
         month |-> MonthKey(rows[i].install_date)]]

RowSeqs(n) == UNION {[1..k -> Rows] : k \in 1..n}

\* the three records of the end-to-end example, each with either subscription
ExampleRows ==
    {<<[country |-> US, install_date |-> <<2024, 1, 5>>, monthly_revenue |-> 10,
        subscription_type |-> s[1], days_active |-> 12, churned |-> FALSE],
       [country |-> US, install_date |-> <<2024, 1, 20>>, monthly_revenue |-> 5,
        subscription_type |-> s[2], days_active |-> 12, churned |-> FALSE],
       [country |-> DE, install_date |-> <<2024, 2, 3>>, monthly_revenue |-> 7,
        subscription_type |-> s[3], days_active |-> 12, churned |-> FALSE]>> :
     s \in [1..3 -> SubscriptionTypes]}

\* ------------------------------------------------------------------ data frame operations

\* .first() in place of .sum(): the group's first monthly_revenue
ColumnFirst(frame) == IF frame = <<>> THEN 0 ELSE Head(frame).monthly_revenue

RECURSIVE ColumnSum(_)
\* Series.sum() of the monthly_revenue column
ColumnSum(frame) ==
    IF frame = <<>> THEN 0 ELSE Head(frame).monthly_revenue + ColumnSum(Tail(frame))

RECURSIVE Unique(_)
\* Series.unique(): the distinct values in order of first appearance
Unique(column) ==
    IF column = <<>> THEN <<>>
    ELSE LET front == Unique(SubSeq(column, 1, Len(column) - 1))
             last == column[Len(column)]
         IN  IF \E i \in DOMAIN front : front[i] = last THEN front ELSE Append(front, last)

\* the order of the (month, country) group keys
KeyLess(a, b) == TextLess(a[1], b[1]) \/ (a[1] = b[1] /\ TextLess(a[2], b[2]))

RECURSIVE SortKeysDescending(_)
\* the group keys in descending order
SortKeysDescending(keys) ==
    IF keys = {} THEN <<>>
    ELSE LET k == CHOOSE k \in keys : \A o \in keys \ {k} : KeyLess(o, k)
         IN  <<k>> \o SortKeysDescending(keys \ {k})

RECURSIVE SortKeys(_)
\* groupby's sort=True: the group keys in ascending order
SortKeys(keys) ==
    IF keys = {} THEN <<>>
    ELSE LET k == CHOOSE k \in keys : \A o \in keys \ {k} : KeyLess(k, o)
         IN  <<k>> \o SortKeys(keys \ {k})

\* df.groupby(['month', 'country'])['monthly_revenue'].sum().reset_index()
GroupRevenue(frame) ==
    LET keys == SortKeys({<<frame[i].month, frame[i].country>> : i \in DOMAIN frame})
        InGroup(k) == LET Test(r) == r.month = k[1] /\ r.country = k[2]
                      IN  SelectSeq(frame, Test)
    IN  [i \in 1..Len(keys) |->
            [month |-> keys[i][1], country |-> keys[i][2],
             monthly_revenue |-> ColumnSum(InGroup(keys[i]))]]

RECURSIVE SortDates(_)
SortDates(dates) ==
    IF dates = {} THEN <<>>
    ELSE LET d == CHOOSE d \in dates : \A o \in dates \ {d} : DateLess(d, o)
         IN  <<d>> \o SortDates(dates \ {d})

\* one row per install_date, counting the records of that date's month
GroupInstallsOfMonth(frame) ==
    LET dates == SortDates({frame[i].install_date : i \in DOMAIN frame})
    IN  [i \in 1..Len(dates) |->
            [install_date |-> dates[i],
             user_id |-> Cardinality({j \in DOMAIN frame :
                             MonthKey(frame[j].install_date) = MonthKey(dates[i])})]]

\* df.groupby('install_date')['user_id'].count().reset_index()
GroupInstalls(frame) ==
    LET dates == SortDates({frame[i].install_date : i \in DOMAIN frame})
    IN  [i \in 1..Len(dates) |->
            [install_date |-> dates[i],
             user_id |-> Cardinality({j \in DOMAIN frame : frame[j].install_date = dates[i]})]]

RECURSIVE SortCounts(_)
\* sort_values(ascending=False) of the counts, equal counts in order of appearance
SortCounts(rows) ==
    IF rows = <<>> THEN <<>>
    ELSE LET top == CHOOSE i \in DOMAIN rows :
                        /\ \A j \in DOMAIN rows : rows[j].count <= rows[i].count
                        /\ \A j \in 1..(i - 1) : rows[j].count < rows[i].count
         IN  <<rows[top]>> \o
             SortCounts(SubSeq(rows, 1, top - 1) \o SubSeq(rows, top + 1, Len(rows)))

\* the distinct countries, each counted once
ValueCountsOnce(frame) ==
    LET values == Unique([i \in DOMAIN frame |-> frame[i].country])
    IN  [i \in 1..Len(values) |-> [country |-> values[i], count |-> 1]]

\* frame['country'].value_counts().reset_index(), columns renamed country, count
ValueCounts(frame) ==
    LET values == Unique([i \in DOMAIN frame |-> frame[i].country])
    IN  SortCounts([i \in 1..Len(values) |->
            [country |-> values[i],
             count |-> Cardinality({j \in DOMAIN frame : frame[j].country = values[i]})]])

\* no filter: the rows of every month
KeepAllMonths(table, selected_month) == table

\* revenue_by_country_month[revenue_by_country_month['month'] == selected_month]
FilterMonth(table, selected_month) ==
    LET Test(r) == r.month = selected_month IN SelectSeq(table, Test)

\* no filter: the records of every subscription type
KeepAllSubscriptions(frame, subscription_type) == frame

\* the matching records, or all of them when none matches
MatchingOrAll(frame, subscription_type) ==
    LET Test(r) == r.subscription_type = subscription_type
    IN  IF SelectSeq(frame, Test) = <<>> THEN frame ELSE SelectSeq(frame, Test)

\* df[df['subscription_type'] == subscription_type]
FilterSubscription(frame, subscription_type) ==
    LET Test(r) == r.subscription_type = subscription_type IN SelectSeq(frame, Test)

\* ------------------------------------------------------------------ chart builders

\* px.bar(...) followed by update_layout(yaxis_tickprefix, yaxis_tickformat)
Bar(data, title, labels) ==
    [type |-> "bar", data |-> data, x |-> "country", y |-> "monthly_revenue",
     color |-> "country", title |-> title, labels |-> labels, height |-> 600,
     yaxis_tickprefix |-> "$", yaxis_tickformat |-> ","]

Line(data) ==
    [type |-> "line", data |-> data, x |-> "install_date", y |-> "user_id",
     title |-> "Daily User Acquisition",
     labels |-> {<<"user_id", "New Users">>, <<"install_date", "Date">>}]

Box(data) ==
    [type |-> "box", data |-> data, x |-> "churned", y |-> "days_active",
     color |-> "churned", title |-> "Activity Duration vs Churn Status",
     labels |-> {<<"churned", "Churned">>, <<"days_active", "Days Active">>}]

Choropleth(data, title) ==
    [type |-> "choropleth", data |-> data, locations |-> "country",
     locationmode |-> "country names", color |-> "count", title |-> title,
     labels |-> {<<"country", "Country">>, <<"count", "Users">>}, height |-> 600]

\* a dcc.Graph given no figure
NoFigure == [type |-> "none"]

InitialLabels ==
    {<<"monthly_revenue", "Total Revenue ($)">>, <<"country", "Country">>, <<"month", "Month">>}

RevenueLabels == {<<"monthly_revenue", "Total Revenue ($)">>, <<"country", "Country">>}

RevenueTitle(selected_month) == "Revenue from Each Country for " \o Join(selected_month)

MapTitle(subscription_type) ==
    "User Distribution by Country (" \o Join(subscription_type) \o " users)"

\* ------------------------------------------------------------------ state

VARIABLES
    df,                        \* the dataset, with the derived month column
    revenue_by_country_month,  \* the precomputed (month, country) aggregate
    fig1,                      \* the module-level revenue figure (all months)
    daily_installs,            \* installs per install_date
    fig2,                      \* the daily installs figure
    fig4,                      \* the activity vs churn figure
    layout,                    \* app.layout: the controls and graphs as served
    pages,                     \* the sessions that have the page open
    month_value,               \* per session, the month-dropdown's value
    subscription_value,        \* per session, the subscription-dropdown's value
    revenue_chart,             \* per session, the figure of graph revenue-chart
    country_map,               \* per session, the figure of graph country-map
    requests                   \* callback requests in arrival order, not yet handled

server == <<df, revenue_by_country_month, fig1, daily_installs, fig2, fig4, layout>>
vars == <<df, revenue_by_country_month, fig1, daily_installs, fig2, fig4, layout, pages,
          month_value, subscription_value, revenue_chart, country_map, requests>>

Users == {"u1", "u2"}

\* the session that SpecAgg drives
Session == "u1"

\* the value a dropdown can send: one of its options, or None when cleared
MonthInputs == {layout.month_options[i] : i \in DOMAIN layout.month_options} \cup {None}
SubscriptionInputs ==
    {layout.subscription_options[i] : i \in DOMAIN layout.subscription_options} \cup {None}

\* app.layout's two dropdowns and four graphs
Layout(table, revenue_figure, installs_figure, churn_figure) ==
    LET months == Unique([i \in DOMAIN table |-> table[i].month])
    IN  [month_options |-> months,
         month_value |-> months[1],
         revenue_chart |-> revenue_figure,
         installs_chart |-> installs_figure,
         subscription_options |-> <<Free, Pro>>,
         subscription_value |-> Free,
         country_map |-> NoFigure,
         churn_chart |-> churn_figure]

\* the module-level code, run once on the rows read from the CSV file
ModuleLoad(rows) ==
    /\ df = LoadFrame(rows)
    /\ revenue_by_country_month = GroupRevenue(df)
    /\ fig1 = Bar(revenue_by_country_month, "Revenue from Each Country Filtered by Month",
                  InitialLabels)
    /\ daily_installs = GroupInstalls(df)
    /\ fig2 = Line(daily_installs)
    /\ fig4 = Box(df)
    /\ layout = Layout(revenue_by_country_month, fig1, fig2, fig4)
    /\ pages = {}
    /\ month_value = [u \in Users |-> None]
    /\ subscription_value = [u \in Users |-> None]
    /\ revenue_chart = [u \in Users |-> NoFigure]
    /\ country_map = [u \in Users |-> NoFigure]
    /\ requests = <<>>

Init == \E rows \in ExampleRows : ModuleLoad(rows)

\* every dataset of up to MaxRecords rows, and the end-to-end example
InitAgg == \E rows \in RowSeqs(MaxRecords) \cup ExampleRows : ModuleLoad(rows)

\* ------------------------------------------------------------------ callbacks

\* the handler's fig1 assigned to the module-level fig1 as well
update_revenue_chart_global(u, selected_month) ==
    LET filtered_data == FilterMonth(revenue_by_country_month, selected_month)
        figure == Bar(filtered_data, RevenueTitle(selected_month), RevenueLabels)
    IN  /\ revenue_chart' = [revenue_chart EXCEPT ![u] = figure]
        /\ fig1' = figure
        /\ UNCHANGED <<df, revenue_by_country_month, daily_installs, fig2, fig4, layout,
                       pages, month_value, subscription_value, country_map>>

\* @app.callback(Output('revenue-chart', 'figure'), Input('month-dropdown', 'value'))
update_revenue_chart(u, selected_month) ==
    LET filtered_data == FilterMonth(revenue_by_country_month, selected_month)
        figure == Bar(filtered_data, RevenueTitle(selected_month), RevenueLabels)
    IN  /\ revenue_chart' = [revenue_chart EXCEPT ![u] = figure]
        /\ UNCHANGED <<server, pages, month_value, subscription_value, country_map>>

\* the map filtered by the session's selected month as well
update_map_of_month(u, subscription_type) ==
    LET of_month == LET Test(r) == r.month = month_value[u] IN SelectSeq(df, Test)
        filtered_df == FilterSubscription(of_month, subscription_type)
        country_dist == ValueCounts(filtered_df)
        fig3 == Choropleth(country_dist, MapTitle(subscription_type))
    IN  /\ country_map' = [country_map EXCEPT ![u] = fig3]
        /\ UNCHANGED <<server, pages, month_value, subscription_value, revenue_chart>>

\* @app.callback(Output('country-map', 'figure'), Input('subscription-dropdown', 'value'))
update_map(u, subscription_type) ==
    LET filtered_df == FilterSubscription(df, subscription_type)
        country_dist == ValueCounts(filtered_df)
        fig3 == Choropleth(country_dist, MapTitle(subscription_type))
    IN  /\ country_map' = [country_map EXCEPT ![u] = fig3]
        /\ UNCHANGED <<server, pages, month_value, subscription_value, revenue_chart>>

MonthRequest(u, value) == [user |-> u, input |-> "month-dropdown", value |-> value]
SubscriptionRequest(u, value) ==
    [user |-> u, input |-> "subscription-dropdown", value |-> value]

\* a browser loads the page: the layout as served, and every callback is called
\* once with the initial value of its input
OpenPage(u) ==
    /\ u \notin pages
    /\ Len(requests) + 2 <= MaxPending
    /\ pages' = pages \cup {u}
    /\ month_value' = [month_value EXCEPT ![u] = layout.month_value]
    /\ subscription_value' = [subscription_value EXCEPT ![u] = layout.subscription_value]
    /\ revenue_chart' = [revenue_chart EXCEPT ![u] = layout.revenue_chart]
    /\ country_map' = [country_map EXCEPT ![u] = layout.country_map]
    /\ \E first \in BOOLEAN :
         LET m == MonthRequest(u, layout.month_value)
             s == SubscriptionRequest(u, layout.subscription_value)
         IN  requests' = requests \o (IF first THEN <<m, s>> ELSE <<s, m>>)
    /\ UNCHANGED server

\* the user picks (or clears) a month
ChangeMonth(u, value) ==
    /\ u \in pages
    /\ Len(requests) < MaxPending
    /\ month_value' = [month_value EXCEPT ![u] = value]
    /\ requests' = Append(requests, MonthRequest(u, value))
    /\ UNCHANGED <<server, pages, subscription_value, revenue_chart, country_map>>

\* the user picks (or clears) a subscription type
ChangeSubscription(u, value) ==
    /\ u \in pages
    /\ Len(requests) < MaxPending
    /\ subscription_value' = [subscription_value EXCEPT ![u] = value]
    /\ requests' = Append(requests, SubscriptionRequest(u, value))
    /\ UNCHANGED <<server, pages, month_value, revenue_chart, country_map>>

\* the newest request first
NewestIndex(queue) == Len(queue)

\* the position in the queue of the request the server handles next: the oldest
NextIndex(queue) == 1

\* the queue without its i-th request
Remove(queue, i) == SubSeq(queue, 1, i - 1) \o SubSeq(queue, i + 1, Len(queue))

\* the server handles one request: one synchronous call of the bound callback,
\* whose return value replaces the Output figure in the requesting page
HandleRequest ==
    /\ requests # <<>>
    /\ LET i == NextIndex(requests)
           r == requests[i]
       IN  /\ IF r.input = "month-dropdown"
                THEN update_revenue_chart(r.user, r.value)
                ELSE update_map(r.user, r.value)
           /\ requests' = Remove(requests, i)

Next ==
    \/ \E u \in Users : OpenPage(u)
    \/ \E u \in Users : \E value \in MonthInputs : ChangeMonth(u, value)
    \/ \E u \in Users : \E value \in SubscriptionInputs : ChangeSubscription(u, value)
    \/ HandleRequest

Spec == Init /\ [][Next]_vars

\* one session, each event handled before the next arrives, over every dataset
\* of up to MaxRecords records
NextAgg ==
    \/ HandleRequest
    \/ requests = <<>> /\ OpenPage(Session)
    \/ requests = <<>> /\ \E value \in MonthInputs : ChangeMonth(Session, value)
    \/ requests = <<>> /\ \E value \in SubscriptionInputs : ChangeSubscription(Session, value)

SpecAgg == InitAgg /\ [][NextAgg]_vars

\* ------------------------------------------------------------------ what the claims speak of

\* the records (positions in df) whose derived month is m
MonthIds(m) == {i \in DOMAIN df : df[i].month = m}

\* the records whose subscription_type is s
SubscriptionIds(s) == {i \in DOMAIN df : df[i].subscription_type = s}

RECURSIVE RevenueOf(_)
\* the monthly_revenue of a set of records, added up
RevenueOf(ids) ==
    IF ids = {} THEN 0
    ELSE LET i == CHOOSE i \in ids : TRUE IN df[i].monthly_revenue + RevenueOf(ids \ {i})

RECURSIVE SeqSum(_)
SeqSum(numbers) == IF numbers = <<>> THEN 0 ELSE Head(numbers) + SeqSum(Tail(numbers))

RowSet(table) == {table[i] : i \in DOMAIN table}

MonthsPresent == {df[i].month : i \in DOMAIN df}

\* every month a dropdown value can name, and None
MonthValues == {MonthKey(d) : d \in Dates} \cup {None}

\* restrict the dataset to month m, then group by country and sum
RowsOfMonth(m) ==
    {[month |-> m, country |-> c,
      monthly_revenue |-> RevenueOf({i \in MonthIds(m) : df[i].country = c})] :
     c \in {df[i].country : i \in MonthIds(m)}}

\* the figure is one update_revenue_chart returned for month m
RevenueChartFor(figure, m) == figure.type = "bar" /\ figure.title = RevenueTitle(m)

\* the figure is one update_map returned for subscription type s
MapFor(figure, s) == figure.type = "choropleth" /\ figure.title = MapTitle(s)

Pending(u, input) ==
    \E i \in DOMAIN requests : requests[i].user = u /\ requests[i].input = input

\* this step is the server handling request r
Handles(r) == requests # <<>> /\ r = Head(requests) /\ requests' = Tail(requests)

\* ------------------------------------------------------------------ claims

\* C1: for every month present in the data, the revenues of the rows the month
\* handler selects for it add up to the monthly_revenue of all records of that month.
C1_MonthRevenueTotal ==
    \A u \in Users : \A m \in MonthsPresent :
        RevenueChartFor(revenue_chart[u], m) =>
            SeqSum([i \in DOMAIN revenue_chart[u].data |->
                        revenue_chart[u].data[i].monthly_revenue])
                = RevenueOf(MonthIds(m))

C1_Witness ==
    \E u \in Users : \E m \in MonthsPresent :
        /\ RevenueChartFor(revenue_chart[u], m)
        /\ Len(revenue_chart[u].data) = 2
        /\ Cardinality(MonthIds(m)) >= 2

\* C2: the table the month handler uses for month m has exactly one row per country
\* among the records of month m, carrying the summed monthly_revenue of that
\* (month, country) pair: filtering the precomputed aggregate by m gives the rows of
\* restricting the dataset to m and then grouping by country.
C2_MonthRowsPerCountry ==
    \A u \in Users : \A m \in MonthValues :
        RevenueChartFor(revenue_chart[u], m) =>
            /\ RowSet(revenue_chart[u].data) = RowsOfMonth(m)
            /\ Len(revenue_chart[u].data) = Cardinality({df[i].country : i \in MonthIds(m)})

\* the end-to-end example: 2024-01 gives only US: 15 although DE has revenue in 2024-02
C2_Witness ==
    \E u \in Users :
        /\ RevenueChartFor(revenue_chart[u], MonthKey(<<2024, 1, 5>>))
        /\ revenue_chart[u].data =
               <<[month |-> MonthKey(<<2024, 1, 5>>), country |-> US, monthly_revenue |-> 15]>>
        /\ Len(df) = 3
        /\ \E i \in DOMAIN df : df[i].country = DE /\ df[i].month = MonthKey(<<2024, 2, 3>>)

\* C3: for Free and for Pro, the country distribution the subscription handler computes
\* has one row per country among the records of that subscription type, and its counts
\* add up to the number of those records.
C3_CountryDistributionTotal ==
    \A u \in Users : \A s \in {Free, Pro} :
        MapFor(country_map[u], s) =>
            LET dist == country_map[u].data
            IN  /\ {dist[i].country : i \in DOMAIN dist}
                       = {df[i].country : i \in SubscriptionIds(s)}
                /\ \A i, j \in DOMAIN dist : dist[i].country = dist[j].country => i = j
                /\ SeqSum([i \in DOMAIN dist |-> dist[i].count])
                       = Cardinality(SubscriptionIds(s))

C3_Witness ==
    \E u \in Users : \E s \in {Free, Pro} :
        /\ MapFor(country_map[u], s)
        /\ \E i \in DOMAIN country_map[u].data : country_map[u].data[i].count = 2
        /\ Cardinality(SubscriptionIds(s)) < Len(df)

\* C4: the daily-installs table has one row per distinct install_date and its counts
\* add up to the number of records.
C4_DailyInstallsTotal ==
    /\ {daily_installs[i].install_date : i \in DOMAIN daily_installs}
           = {df[i].install_date : i \in DOMAIN df}
    /\ \A i, j \in DOMAIN daily_installs :
           daily_installs[i].install_date = daily_installs[j].install_date => i = j
    /\ SeqSum([i \in DOMAIN daily_installs |-> daily_installs[i].user_id]) = Len(df)
    /\ fig2.data = daily_installs

\* two install dates of the same month, each with its own row
C4_Witness ==
    /\ Len(daily_installs) = 2
    /\ Cardinality(MonthsPresent) = 1
    /\ Len(df) >= 2
    /\ layout.installs_chart.data = daily_installs

\* the expected country distribution of subscription type s, as a set of rows
RowsOfSubscription(s) ==
    {[country |-> c,
      count |-> Cardinality({i \in SubscriptionIds(s) : df[i].country = c})] :
     c \in {df[i].country : i \in SubscriptionIds(s)}}

\* everything but the two bound figures and the request queue
Unbound == <<df, revenue_by_country_month, fig1, daily_installs, fig2, fig4, layout, pages,
             month_value, subscription_value>>

\* C5: a filter value that matches no record is not an error: the handler returns a
\* chart bound to an empty table, and every other chart and the dataset stay as they were.
C5_UnmatchedFilterGivesEmptyChart ==
    [][\A r \in RowSet(requests) : Handles(r) =>
          /\ (r.input = "month-dropdown" /\ MonthIds(r.value) = {}) =>
                /\ RevenueChartFor(revenue_chart'[r.user], r.value)
                /\ revenue_chart'[r.user].data = <<>>
                /\ \A v \in Users \ {r.user} : revenue_chart'[v] = revenue_chart[v]
                /\ UNCHANGED <<country_map, Unbound>>
          /\ (r.input = "subscription-dropdown" /\ SubscriptionIds(r.value) = {}) =>
                /\ MapFor(country_map'[r.user], r.value)
                /\ country_map'[r.user].data = <<>>
                /\ \A v \in Users \ {r.user} : country_map'[v] = country_map[v]
                /\ UNCHANGED <<revenue_chart, Unbound>>]_vars

\* a cleared month and a subscription type no record has, both handled
C5_Witness ==
    \E u, v \in Users :
        /\ RevenueChartFor(revenue_chart[u], None)
        /\ revenue_chart[u].data = <<>>
        /\ MapFor(country_map[v], Free)
        /\ country_map[v].data = <<>>
        /\ SubscriptionIds(Free) = {}
        /\ revenue_by_country_month # <<>>

\* C6: each handler changes only its own target: a month change replaces only the
\* requesting page's revenue chart and a subscription change only its country map; the
\* other bound chart, the static charts, the dataset, the precomputed aggregate, the
\* module-level figure and the control values are unchanged by the call.
C6_HandlerChangesOnlyItsTarget ==
    [][\A r \in RowSet(requests) : Handles(r) =>
          /\ UNCHANGED Unbound
          /\ r.input = "month-dropdown" =>
                /\ UNCHANGED country_map
                /\ \A v \in Users \ {r.user} : revenue_chart'[v] = revenue_chart[v]
          /\ r.input = "subscription-dropdown" =>
                /\ UNCHANGED revenue_chart
                /\ \A v \in Users \ {r.user} : country_map'[v] = country_map[v]]_vars

\* both handlers have run for one page while another page shows its own charts
C6_Witness ==
    \E u, v \in Users :
        /\ u # v
        /\ \E m \in MonthsPresent : RevenueChartFor(revenue_chart[u], m)
        /\ \E s \in {Free, Pro} : MapFor(country_map[u], s)
        /\ \E m \in MonthValues : RevenueChartFor(revenue_chart[v], m)
        /\ revenue_chart[v] # revenue_chart[u]
        /\ layout.revenue_chart = fig1

\* C7: the handlers are stateless and deterministic: whatever the histories of two
\* sessions, the figures they got for the same month are the same figure, and likewise
\* for the same subscription type.
C7_SameInputSameFigure ==
    \A u, v \in Users :
        /\ (/\ revenue_chart[u].type = "bar"
            /\ revenue_chart[v].type = "bar"
            /\ revenue_chart[u].title = revenue_chart[v].title)
               => revenue_chart[u] = revenue_chart[v]
        /\ (/\ country_map[u].type = "choropleth"
            /\ country_map[v].type = "choropleth"
            /\ country_map[u].title = country_map[v].title)
               => country_map[u] = country_map[v]

\* two sessions with different histories hold figures for the same inputs
C7_Witness ==
    \E u, v \in Users :
        /\ u # v
        /\ \E s \in {Free, Pro} :
              /\ MapFor(country_map[u], s)
              /\ MapFor(country_map[v], s)
              /\ country_map[u].data # <<>>
        /\ \E m \in MonthsPresent :
              /\ RevenueChartFor(revenue_chart[u], m)
              /\ RevenueChartFor(revenue_chart[v], m)
        /\ month_value[u] # month_value[v]
        /\ subscription_value[u] # subscription_value[v]

\* C8 as stated: the month options are the distinct months in the order in which the
\* data first shows them, and the default is the first month the data shows.
C8_OptionsInDataOrder ==
    /\ layout.month_options = Unique([i \in DOMAIN df |-> df[i].month])
    /\ layout.month_value = df[1].month

\* C8, amended: the month options are exactly the distinct months of the data, each
\* once, in ascending order (the order of the sorted aggregate), and the default is the
\* earliest month.
C8_OptionsAscending ==
    LET options == layout.month_options
    IN  /\ RowSet(options) = MonthsPresent
        /\ \A i, j \in DOMAIN options : i < j => TextLess(options[i], options[j])
        /\ layout.month_value = options[1]

\* the data shows 2024-02 first, the dropdown 2024-01
C8_Witness ==
    /\ Len(df) = 2
    /\ df[1].month = MonthKey(<<2024, 2, 3>>)
    /\ df[2].month = MonthKey(<<2024, 1, 5>>)
    /\ layout.month_options = <<MonthKey(<<2024, 1, 5>>), MonthKey(<<2024, 2, 3>>)>>
    /\ Session \in pages
    /\ month_value[Session] = MonthKey(<<2024, 1, 5>>)

\* C9: the Free and the Pro country distributions count disjoint sets of records, and
\* their totals add up to the number of records that are Free or Pro.
C9_FreeProPartition ==
    LET free == FilterSubscription(df, Free)
        pro == FilterSubscription(df, Pro)
        Total(dist) == SeqSum([i \in DOMAIN dist |-> dist[i].count])
    IN  /\ {free[i].user_id : i \in DOMAIN free} \cap {pro[i].user_id : i \in DOMAIN pro} = {}
        /\ Total(ValueCounts(free)) + Total(ValueCounts(pro))
               = Cardinality(SubscriptionIds(Free) \cup SubscriptionIds(Pro))
        /\ \A u \in Users : \A s \in {Free, Pro} :
               MapFor(country_map[u], s) =>
                   country_map[u].data = ValueCounts(FilterSubscription(df, s))

C9_Witness ==
    /\ SubscriptionIds(Free) # {}
    /\ SubscriptionIds(Pro) # {}
    /\ \E i \in SubscriptionIds(Free) : \E j \in SubscriptionIds(Pro) :
           df[i].country = df[j].country
    /\ MapFor(country_map[Session], Pro)
    /\ country_map[Session].data # <<>>

\* C10: once every change of a control has been handled, in arrival order, the bound
\* chart is the one for the most recently selected value (its rows and its title); each
\* handled request installs the chart for its own value, and nothing else replaces a
\* chart of an open page.
C10_ChartShowsLatestSelection ==
    /\ [](\A u \in pages :
            /\ ~Pending(u, "month-dropdown") =>
                  /\ RevenueChartFor(revenue_chart[u], month_value[u])
                  /\ RowSet(revenue_chart[u].data) = RowsOfMonth(month_value[u])
            /\ ~Pending(u, "subscription-dropdown") =>
                  /\ MapFor(country_map[u], subscription_value[u])
                  /\ RowSet(country_map[u].data) = RowsOfSubscription(subscription_value[u]))
    /\ [][\A u \in pages :
            /\ revenue_chart'[u] # revenue_chart[u] =>
                  \E r \in RowSet(requests) :
                      /\ Handles(r) /\ r = MonthRequest(u, r.value)
                      /\ RevenueChartFor(revenue_chart'[u], r.value)
            /\ country_map'[u] # country_map[u] =>
                  \E r \in RowSet(requests) :
                      /\ Handles(r) /\ r = SubscriptionRequest(u, r.value)
                      /\ MapFor(country_map'[u], r.value)]_vars

\* selections later than the initial ones are what both charts show once the queue
\* has drained
C10_Witness ==
    \E u \in pages :
        /\ requests = <<>>
        /\ month_value[u] # layout.month_value
        /\ month_value[u] \in MonthsPresent
        /\ subscription_value[u] = Pro
        /\ RevenueChartFor(revenue_chart[u], month_value[u])
        /\ MapFor(country_map[u], Pro)
        /\ country_map[u].data # <<>>

====
